---- MODULE Spec2Model ----
(***************************************************************************)
(* rimplog: a log-line formatter and filter wiring on top of env_logger.   *)
(*                                                                         *)
(* Text is modelled as a sequence of glyphs.  A glyph is an atomic piece   *)
(* of text (one character such as "/" or "[", or a word such as "src" or   *)
(* "rimplog" that is never split); two texts are equal exactly when their  *)
(* glyph sequences are equal, and prefix / substring tests are made on     *)
(* glyph sequences.                                                        *)
(***************************************************************************)
EXTENDS Integers, Sequences, FiniteSets, TLC

(* ---------------------------------------------------------------------- *)
(* Bounds of the model                                                     *)
(* ---------------------------------------------------------------------- *)
MaxPathLen == 6

MaxDepth == 3

(* ---------------------------------------------------------------------- *)
(* Text helpers                                                            *)
(* ---------------------------------------------------------------------- *)
Min(a, b) == IF a <= b THEN a ELSE b

\* s.starts_with(p)
StartsWith(s, p) ==
    /\ Len(p) <= Len(s)
    /\ SubSeq(s, 1, Len(p)) = p

\* s.contains(p)
Contains(s, p) ==
    \E i \in 0..(Len(s) - Len(p)) : SubSeq(s, i + 1, i + Len(p)) = p

RECURSIVE SplitFrom(_, _, _, _)
SplitFrom(s, sep, i, cur) ==
    IF i > Len(s) THEN <<cur>>
    ELSE IF s[i] = sep THEN <<cur>> \o SplitFrom(s, sep, i + 1, <<>>)
    ELSE SplitFrom(s, sep, i + 1, Append(cur, s[i]))

\* The pieces of s between occurrences of sep (empty pieces included).
Split(s, sep) == SplitFrom(s, sep, 1, <<>>)

RECURSIVE Join(_, _)
\* [&str]::join(sep)
Join(parts, sep) ==
    IF Len(parts) = 0 THEN <<>>
    ELSE IF Len(parts) = 1 THEN parts[1]
    ELSE parts[1] \o sep \o Join(Tail(parts), sep)

RECURSIVE Flatten(_)
Flatten(parts) ==
    IF Len(parts) = 0 THEN <<>> ELSE parts[1] \o Flatten(Tail(parts))

(* ---------------------------------------------------------------------- *)
(* Path relativization                                                     *)
(* ---------------------------------------------------------------------- *)
Slash == <<"/">>

RECURSIVE kept_pieces(_, _, _)
\* The pieces Path::components() yields as named components, from piece i on.
kept_pieces(pieces, i, has_root) ==
    IF i > Len(pieces) THEN <<>>
    ELSE LET keep == /\ pieces[i] # <<>>
                     /\ (pieces[i] = <<".">> => (i = 1 /\ ~has_root))
         IN  (IF keep THEN <<pieces[i]>> ELSE <<>>)
               \o kept_pieces(pieces, i + 1, has_root)

\* Path::components() on a Unix path, each component as its as_os_str():
\* a leading "/" is the root component "/", empty pieces (repeated or
\* trailing separators) are dropped, a "." piece is dropped unless it is the
\* first piece of a path without a root, every other piece is kept.
components(file_path) ==
    LET has_root == Len(file_path) > 0 /\ file_path[1] = "/"
    IN  (IF has_root THEN <<Slash>> ELSE <<>>)
          \o kept_pieces(Split(file_path, "/"), 1, has_root)

\* A mutation of src_index: the last "src" component instead of the first.
src_index_last(comps) ==
    IF \E i \in 1..Len(comps) : comps[i] = <<"src">>
    THEN CHOOSE i \in 1..Len(comps) :
            /\ comps[i] = <<"src">>
            /\ \A j \in (i + 1)..Len(comps) : comps[j] # <<"src">>
    ELSE 0

\* components.iter().position(|&c| c == "src"), 1-based; 0 is Option::None.
src_index(comps) ==
    IF \E i \in 1..Len(comps) : comps[i] = <<"src">>
    THEN CHOOSE i \in 1..Len(comps) :
            /\ comps[i] = <<"src">>
            /\ \A j \in 1..(i - 1) : comps[j] # <<"src">>
    ELSE 0

relevant_components(comps) ==
    IF src_index(comps) # 0
    THEN SubSeq(comps, src_index(comps), Len(comps))
    ELSE comps

get_project_relative_path(file_path, depth) ==
    LET relevant == relevant_components(components(file_path))
        total    == Len(relevant)
    IN  IF depth = 0 \/ depth >= total
        THEN Join(relevant, Slash)
        ELSE Join(SubSeq(relevant, total - depth + 1, total), Slash)

(* ---------------------------------------------------------------------- *)
(* Option values: Option::None is <<>>, Some(x) is <<x>>                   *)
(* ---------------------------------------------------------------------- *)
NoneOpt == <<>>

Some(x) == <<x>>

unwrap_or(opt, default) == IF opt = NoneOpt THEN default ELSE opt[1]

(* ---------------------------------------------------------------------- *)
(* Severities (log::Level, log::LevelFilter)                               *)
(* ---------------------------------------------------------------------- *)
Off == 0

Error == 1

Warn == 2

Info == 3

Debug == 4

Trace == 5

Levels == Error..Trace

LevelFilters == Off..Trace

Uppers == <<"A","B","C","D","E","F","G","H","I","J","K","L","M",
            "N","O","P","Q","R","S","T","U","V","W","X","Y","Z">>

Lowers == <<"a","b","c","d","e","f","g","h","i","j","k","l","m",
            "n","o","p","q","r","s","t","u","v","w","x","y","z">>

to_lowercase_glyph(g) ==
    IF \E i \in 1..Len(Uppers) : Uppers[i] = g
    THEN Lowers[CHOOSE i \in 1..Len(Uppers) : Uppers[i] = g]
    ELSE g

\* str::to_lowercase
to_lowercase(s) == [i \in 1..Len(s) |-> to_lowercase_glyph(s[i])]

LevelNames == <<  <<"e","r","r","o","r">>, <<"w","a","r","n">>,
                  <<"i","n","f","o">>, <<"d","e","b","u","g">>,
                  <<"t","r","a","c","e">>  >>

\* str::parse::<log::LevelFilter>(): the names are matched ignoring ASCII
\* case; Ok(filter) is Some(filter), Err is None.
parse_level_filter(s) ==
    IF to_lowercase(s) = <<"o","f","f">> THEN Some(Off)
    ELSE IF \E l \in Levels : LevelNames[l] = to_lowercase(s)
    THEN Some(CHOOSE l \in Levels : LevelNames[l] = to_lowercase(s))
    ELSE NoneOpt

(* ---------------------------------------------------------------------- *)
(* The filter of the logging facility (env_logger::Builder)                *)
(* ---------------------------------------------------------------------- *)
\* A directive is [name |-> Option(target prefix), level |-> LevelFilter].
Directive(name, level) == [name |-> name, level |-> level]

\* Builder::filter(module, level): a directive for a module name replaces
\* the directive the builder already holds for that name.
filter(directives, name, level) ==
    IF \E i \in 1..Len(directives) : directives[i].name = name
    THEN [i \in 1..Len(directives) |->
            IF directives[i].name = name THEN Directive(name, level)
            ELSE directives[i]]
    ELSE Append(directives, Directive(name, level))

\* One comma-separated part of a filter specification: "level", "name",
\* "name=" or "name=level"; a part that is none of these is ignored.
parse_directive(part) ==
    LET kv == Split(part, "=")
    IN  IF part = <<>> THEN NoneOpt
        ELSE IF Len(kv) = 1
        THEN (IF parse_level_filter(kv[1]) # NoneOpt
              THEN Some(Directive(NoneOpt, parse_level_filter(kv[1])[1]))
              ELSE Some(Directive(Some(kv[1]), Trace)))
        ELSE IF Len(kv) = 2 /\ kv[2] = <<>>
        THEN Some(Directive(Some(kv[1]), Trace))
        ELSE IF Len(kv) = 2 /\ parse_level_filter(kv[2]) # NoneOpt
        THEN Some(Directive(Some(kv[1]), parse_level_filter(kv[2])[1]))
        ELSE NoneOpt

RECURSIVE parse_parts(_, _)
parse_parts(parts, directives) ==
    IF Len(parts) = 0 THEN directives
    ELSE LET d == parse_directive(parts[1])
         IN  parse_parts(Tail(parts),
                IF d = NoneOpt THEN directives
                ELSE filter(directives, d[1].name, d[1].level))

\* Env::default().filter_or("RUST_LOG", level) and Builder::from_env(env):
\* the value of RUST_LOG when the variable is set, the default otherwise,
\* parsed as a filter specification.
from_env(rust_log_var, default) ==
    parse_parts(Split(unwrap_or(rust_log_var, default), ","), <<>>)

directive_matches(d, target) ==
    IF d.name = NoneOpt THEN TRUE ELSE StartsWith(target, d.name[1])

name_len(d) == IF d.name = NoneOpt THEN 0 ELSE Len(d.name[1])

\* Whether the installed filter lets a record through: the directive with
\* the longest name that is a prefix of the target decides.
enabled(directives, level, target) ==
    \E i \in 1..Len(directives) :
        /\ directive_matches(directives[i], target)
        /\ \A j \in 1..Len(directives) :
              directive_matches(directives[j], target)
                 => name_len(directives[j]) <= name_len(directives[i])
        /\ level <= directives[i].level

\* The threshold the filter holds for a name (None: the global default).
threshold(directives, name) ==
    IF \E i \in 1..Len(directives) : directives[i].name = name
    THEN Some((CHOOSE d \in {directives[i] : i \in 1..Len(directives)} :
                  d.name = name).level)
    ELSE NoneOpt

(* ---------------------------------------------------------------------- *)
(* The line formatter (the closure given to Builder::format)               *)
(* ---------------------------------------------------------------------- *)
FULL == "FULL"

THREAD == "THREAD"

SIMPLE == "SIMPLE"

LoggerPreset == {FULL, THREAD, SIMPLE}

\* env!("CARGO_PKG_NAME"): the name of the package lib.rs is compiled in.
CARGO_PKG_NAME == <<"rimplog">>

Reset == "ESC[0m"

\* A styled text as the colored crate displays it: the text between the
\* style's escape sequence and the reset sequence when colouring is on, the
\* text alone when it is off.
styled(style, text, colorize) ==
    IF colorize THEN <<style>> \o text \o <<Reset>> ELSE text

Red_bold == "ESC[1;31m"

Yellow_bold == "ESC[1;33m"

Green_bold == "ESC[1;32m"

Blue_bold == "ESC[1;34m"

Magenta_bold == "ESC[1;35m"

Yellow == "ESC[33m"

Cyan == "ESC[36m"

Bright_green == "ESC[92m"

Bright_blue == "ESC[94m"

Escapes == {Reset, Red_bold, Yellow_bold, Green_bold, Blue_bold, Magenta_bold,
            Yellow, Cyan, Bright_green, Bright_blue}

level_label(level) ==
    CASE level = Error -> <<"E","R","R","O","R">>
      [] level = Warn  -> <<"W","A","R","N"," ">>
      [] level = Info  -> <<"I","N","F","O"," ">>
      [] level = Debug -> <<"D","E","B","U","G">>
      [] level = Trace -> <<"T","R","A","C","E">>

level_style(level) ==
    CASE level = Error -> Red_bold
      [] level = Warn  -> Yellow_bold
      [] level = Info  -> Green_bold
      [] level = Debug -> Blue_bold
      [] level = Trace -> Magenta_bold

\* let level = match record.level() { ... }
fmt_level(record, colorize) ==
    styled(level_style(record.level), level_label(record.level), colorize)

\* A mutation of fmt_file_path: an absent file is the empty path.
fmt_file_path_empty(record) == unwrap_or(record.file, <<>>)

\* record.file().unwrap_or("unknown")
fmt_file_path(record) == unwrap_or(record.file, <<"unknown">>)

\* get_project_relative_path(file_path, path_depth)
fmt_project_relative_path(path_depth, record) ==
    get_project_relative_path(fmt_file_path(record), path_depth)

\* record.line().unwrap_or(0)
fmt_line(record) == unwrap_or(record.line, 0)

\* thread::current().name().unwrap_or("unknown")
fmt_thread_name(thread) == unwrap_or(thread, <<"unknown">>)

fmt_thread_colored(thread, colorize) ==
    IF fmt_thread_name(thread) = <<"main">>
    THEN styled(Bright_green, fmt_thread_name(thread), colorize)
    ELSE styled(Bright_blue, fmt_thread_name(thread), colorize)

\* let project = if record.target().starts_with(project_name) { .. } else { .. }
fmt_project(project_name, record, project_relative_path, colorize) ==
    IF StartsWith(record.target, project_name)
    THEN styled(Yellow, project_relative_path, colorize)
    ELSE <<"[">> \o styled(Yellow, record.target, colorize) \o <<"]", " ">>
           \o styled(Yellow, project_relative_path, colorize)

two_digits(n) == <<ToString((n \div 10) % 10), ToString(n % 10)>>

\* One item of a strftime pattern at `now` seconds after the epoch (UTC):
\* a specifier renders its field, any other glyph is literal text.
strftime_item(item, now) ==
    CASE item = "%Y" -> <<"1","9","7","0">>
      [] item = "%m" -> <<"0","1">>
      [] item = "%d" -> two_digits(1 + (now \div 86400))
      [] item = "%H" -> two_digits((now \div 3600) % 24)
      [] item = "%M" -> two_digits((now \div 60) % 60)
      [] item = "%S" -> two_digits(now % 60)
      [] OTHER       -> <<item>>

\* Local::now().format(&time_format).to_string()
strftime(time_format, now) ==
    Flatten([i \in 1..Len(time_format) |-> strftime_item(time_format[i], now)])

fmt_timestamp(time_format, now, colorize) ==
    styled(Cyan, strftime(time_format, now), colorize)

\* A mutation of fmt_log_message: every preset ends the line with "\n".
fmt_log_message_newline(preset, timestamp, level, thread_colored, project, line, args, colorize) ==
    CASE preset = FULL ->
           timestamp \o <<" ">> \o level \o <<" ", "[">> \o thread_colored
             \o <<"]", " ", "[">> \o project \o <<":">>
             \o styled(Yellow, <<ToString(line)>>, colorize) \o <<"]", " ">> \o args
             \o <<"\n">>
      [] preset = THREAD ->
           timestamp \o <<" ">> \o level \o <<" ", "[">> \o thread_colored
             \o <<"]", " ">> \o args \o <<"\n">>
      [] preset = SIMPLE ->
           <<"[", " ">> \o timestamp \o <<" ">> \o level \o <<"]", " ">> \o args
             \o <<"\n">>

\* A mutation of fmt_log_message: SIMPLE renders the thread label as THREAD does.
fmt_log_message_thread(preset, timestamp, level, thread_colored, project, line, args, colorize) ==
    CASE preset = FULL ->
           timestamp \o <<" ">> \o level \o <<" ", "[">> \o thread_colored
             \o <<"]", " ", "[">> \o project \o <<":">>
             \o styled(Yellow, <<ToString(line)>>, colorize) \o <<"]", " ">> \o args
      [] preset \in {THREAD, SIMPLE} ->
           timestamp \o <<" ">> \o level \o <<" ", "[">> \o thread_colored
             \o <<"]", " ">> \o args

\* let log_message = match preset { ... }
fmt_log_message(preset, timestamp, level, thread_colored, project, line, args, colorize) ==
    CASE preset = FULL ->
           timestamp \o <<" ">> \o level \o <<" ", "[">> \o thread_colored
             \o <<"]", " ", "[">> \o project \o <<":">>
             \o styled(Yellow, <<ToString(line)>>, colorize) \o <<"]", " ">> \o args
      [] preset = THREAD ->
           timestamp \o <<" ">> \o level \o <<" ", "[">> \o thread_colored
             \o <<"]", " ">> \o args
      [] preset = SIMPLE ->
           <<"[", " ">> \o timestamp \o <<" ">> \o level \o <<"]", " ">> \o args

\* The locals of one run of the closure over the captured configuration.
format_closure(cap, record, thread, now, colorize) ==
    LET prp == fmt_project_relative_path(cap.path_depth, record)
        prj == fmt_project(cap.project_name, record, prp, colorize)
        ts  == fmt_timestamp(cap.time_format, now, colorize)
    IN  [ file_path             |-> fmt_file_path(record),
          project_relative_path |-> prp,
          line                  |-> fmt_line(record),
          level                 |-> fmt_level(record, colorize),
          thread_name           |-> fmt_thread_name(thread),
          thread_colored        |-> fmt_thread_colored(thread, colorize),
          project               |-> prj,
          timestamp             |-> ts,
          log_message           |-> fmt_log_message(cap.preset, ts,
                                      fmt_level(record, colorize),
                                      fmt_thread_colored(thread, colorize),
                                      prj, fmt_line(record), record.args, colorize) ]

(* ---------------------------------------------------------------------- *)
(* State                                                                   *)
(* ---------------------------------------------------------------------- *)
VARIABLES
    arg_path,    \* get_project_relative_path: the file_path argument
    arg_depth,   \* get_project_relative_path: the depth argument
    ret_path,    \* get_project_relative_path: Some(returned String) once called
    host,        \* the package name of the application that uses the library
    rust_log,    \* the RUST_LOG environment variable: None or Some(value)
    colorize,    \* whether the colored crate emits escape sequences
    installed,   \* whether builder.init() has registered the logger
    builder,     \* Some(the LoggerBuilder given to the init_logger that registered it)
    captured,    \* what the format closure captured by move
    directives,  \* the filter directives of the registered logger
    stderr,      \* the lines init_logger wrote to the error stream
    panicked,    \* whether a call of init_logger has panicked
    last,        \* the last record handed to the facility and what reached the sink
    pc,          \* per thread: where its run of the format closure stands
    loc          \* per thread: the locals of its run of the format closure

pathVars == <<arg_path, arg_depth, ret_path>>

envVars == <<host, rust_log, colorize>>

loggerVars == <<installed, builder, captured, directives, stderr, panicked>>

threadVars == <<pc, loc>>

vars == <<arg_path, arg_depth, ret_path, host, rust_log, colorize, installed,
          builder, captured, directives, stderr, panicked, last, pc, loc>>

(* ---------------------------------------------------------------------- *)
(* Inputs                                                                  *)
(* ---------------------------------------------------------------------- *)
MaxPathDepth == 2

MaxClock == 1

PathGlyphs == {"/", ".", "src", "a"}

Paths == UNION {[1..n -> PathGlyphs] : n \in 0..MaxPathLen}

Main == <<"main">>

\* The threads of the process.
Threads == {"T_main", "T_worker", "T_unnamed"}

\* thread::current().name()
current_name(t) ==
    CASE t = "T_main"    -> Some(Main)
      [] t = "T_worker"  -> Some(<<"worker">>)
      [] t = "T_unnamed" -> NoneOpt

Hosts == {<<"proj">>, <<"rimplog">>}

Targets == { <<"proj">>, <<"proj", "::", "mod">>, <<"proj", "_x">>,
             <<"rimplog">>, <<"rimplog", "_x">>, <<"other_crate", "::", "x">> }

\* Whether a target names the package `name` or one of its modules.
belongs_to(target, name) ==
    target = name \/ StartsWith(target, name \o <<"::">>)

ScenarioFile ==
    <<"/", "home", "/", "u", "/", "proj", "/", "src", "/", "mod", "/", "file.rs">>

Files == {NoneOpt, Some(ScenarioFile), Some(<<"src", "/", "main.rs">>)}

Lines == {NoneOpt, Some(42)}

Hello == <<"hello">>

\* The message text of a record: as the underscore macros pass it, as the
\* plain macros pass it (with "\n" appended), and a text with brackets.
Messages == {Hello, Hello \o <<"\n">>, <<"[", "main", "]">>}

Record(level, target, file, line, args) ==
    [level |-> level, target |-> target, file |-> file, line |-> line,
     args |-> args]

DefaultTimeFormat ==
    <<"%Y", "-", "%m", "-", "%d", " ", "%H", ":", "%M", ":", "%S">>

TimeFormats == {DefaultTimeFormat, <<"%M", ":", "%S">>}

LevelStrings == { <<"i","n","f","o">>, <<"W","A","R","N">>, <<"D","e","b","u","g">>,
                  <<"t","r","a","c","e">>, <<"o","f","f">>,
                  <<"l","o","u","d">>, <<"L","o","u","d">>, <<>> }

\* Values of RUST_LOG: unset, "debug", "error" and "other_crate=trace".
EnvValues == { NoneOpt, Some(<<"d","e","b","u","g">>), Some(<<"e","r","r","o","r">>),
               Some(<<"other_crate", "=", "t","r","a","c","e">>) }

LoggerBuilder(level, only_project_logs, path_depth, time_format, preset) ==
    [level |-> level, only_project_logs |-> only_project_logs,
     path_depth |-> path_depth, time_format |-> time_format, preset |-> preset]

\* impl Default for LoggerBuilder
LoggerBuilder_default ==
    LoggerBuilder(<<"i","n","f","o">>, FALSE, 0, DefaultTimeFormat, FULL)

NoLocals ==
    [record |-> NoneOpt, project_relative_path |-> <<>>, project |-> <<>>,
     now |-> 0, timestamp |-> <<>>, log_message |-> <<>>]

(* ---------------------------------------------------------------------- *)
(* init_logger                                                             *)
(* ---------------------------------------------------------------------- *)
\* eprintln!("Invalid log level '{}', using default level Info", level)
invalid_level_warning(level) ==
    <<"Invalid log level ", "'">> \o level
       \o <<"'", ", using default level Info", "\n">>

\* A mutation of parsed_level: the fallback is Warn.
parsed_level_warn(level) == unwrap_or(parse_level_filter(level), Warn)

\* level.parse::<log::LevelFilter>().unwrap_or_else(|_| { ..; LevelFilter::Info })
parsed_level(level) == unwrap_or(parse_level_filter(level), Info)

\* What the error stream holds after the parse of `level`.
stderr_after_parse(err, level) ==
    IF parse_level_filter(level) = NoneOpt
    THEN Append(err, invalid_level_warning(level))
    ELSE err

\* if only_project_logs { filter(None, Off).filter(Some(project_name), parsed) }
\* else { filter(None, parsed) }
wire_filters(from_environment, only_project_logs, parsed) ==
    IF only_project_logs
    THEN filter(filter(from_environment, NoneOpt, Off), Some(CARGO_PKG_NAME), parsed)
    ELSE filter(from_environment, NoneOpt, parsed)

\* The values the format closure moves out of init_logger's locals.
capture(logger_builder) ==
    [path_depth   |-> logger_builder.path_depth,
     time_format  |-> logger_builder.time_format,
     preset       |-> logger_builder.preset,
     project_name |-> CARGO_PKG_NAME]

NotCaptured == [path_depth |-> 0, time_format |-> <<>>, preset |-> FULL,
                project_name |-> <<>>]

\* The first init_logger of the process: it registers the logger.
init_logger(logger_builder) ==
    LET level == to_lowercase(logger_builder.level)
    IN  /\ ~installed
        /\ captured' = capture(logger_builder)
        /\ stderr' = stderr_after_parse(stderr, level)
        /\ directives' = wire_filters(from_env(rust_log, level),
                                      logger_builder.only_project_logs,
                                      parsed_level(level))
        /\ installed' = TRUE
        /\ builder' = Some(logger_builder)
        /\ UNCHANGED <<pathVars, envVars, panicked, last, threadVars>>

\* A later init_logger: its builder is configured and its level parsed as
\* before, then builder.init() panics because a logger is registered; the
\* registered logger and its closure stay as they are.
init_logger_again(logger_builder) ==
    LET level == to_lowercase(logger_builder.level)
    IN  /\ installed
        /\ ~panicked
        /\ stderr' = stderr_after_parse(stderr, level)
        /\ panicked' = TRUE
        /\ UNCHANGED <<pathVars, envVars, installed, builder, captured,
                       directives, last, threadVars>>

(* ---------------------------------------------------------------------- *)
(* Emission of a record                                                    *)
(* ---------------------------------------------------------------------- *)
\* What `last` holds for a call of the facility.
Call(thread, record, now, emitted, locals, writes) ==
    [thread |-> thread, record |-> record, now |-> now, emitted |-> emitted,
     locals |-> locals, writes |-> writes]

\* One log::log! call on thread t, the clock reading `now` when the closure
\* runs: the registered filter decides, then the closure formats the record
\* and write!(buf, "{}", log_message) hands the line to the sink.  Without a
\* registered logger the facility drops the record.
log(t, record, now) ==
    LET pass   == installed /\ enabled(directives, record.level, record.target)
        locals == format_closure(captured, record, current_name(t), now, colorize)
    IN  /\ last' = IF pass
                   THEN Some(Call(current_name(t), record, now, TRUE, Some(locals),
                                  <<locals.log_message>>))
                   ELSE Some(Call(current_name(t), record, now, FALSE, NoneOpt, <<>>))
        /\ UNCHANGED <<pathVars, envVars, loggerVars, threadVars>>

(* The same call with the closure's reads of its captured values as separate *)
(* steps, for threads that log at the same time.                             *)

\* The filter lets the record through and the closure starts (line 60).
log_begin(t, record) ==
    /\ pc[t] = "idle"
    /\ installed
    /\ enabled(directives, record.level, record.target)
    /\ pc' = [pc EXCEPT ![t] = "l62"]
    /\ loc' = [loc EXCEPT ![t] = [NoLocals EXCEPT !.record = Some(record)]]
    /\ UNCHANGED <<pathVars, envVars, loggerVars, last>>

\* A mutation of closure_l62: the closure keeps the depth in a shared cell
\* and uses it up.
closure_l62_shared_cell(t) ==
    /\ pc[t] = "l62"
    /\ loc' = [loc EXCEPT ![t].project_relative_path =
                 fmt_project_relative_path(captured.path_depth, loc[t].record[1])]
    /\ captured' = [captured EXCEPT !.path_depth = 0]
    /\ pc' = [pc EXCEPT ![t] = "l80"]
    /\ UNCHANGED <<pathVars, envVars, installed, builder, directives, stderr,
                   panicked, last>>

\* Line 62 reads path_depth.
closure_l62(t) ==
    /\ pc[t] = "l62"
    /\ loc' = [loc EXCEPT ![t].project_relative_path =
                 fmt_project_relative_path(captured.path_depth, loc[t].record[1])]
    /\ pc' = [pc EXCEPT ![t] = "l80"]
    /\ UNCHANGED <<pathVars, envVars, loggerVars, last>>

\* Line 80 reads project_name.
closure_l80(t) ==
    /\ pc[t] = "l80"
    /\ loc' = [loc EXCEPT ![t].project =
                 fmt_project(captured.project_name, loc[t].record[1],
                             loc[t].project_relative_path, colorize)]
    /\ pc' = [pc EXCEPT ![t] = "l89"]
    /\ UNCHANGED <<pathVars, envVars, loggerVars, last>>

\* Line 89 reads the clock and time_format.
closure_l89(t) ==
    /\ pc[t] = "l89"
    /\ \E now \in 0..MaxClock :
          loc' = [loc EXCEPT ![t].now = now,
                             ![t].timestamp =
                                fmt_timestamp(captured.time_format, now, colorize)]
    /\ pc' = [pc EXCEPT ![t] = "l91"]
    /\ UNCHANGED <<pathVars, envVars, loggerVars, last>>

\* Line 91 reads preset and assembles the line.
closure_l91(t) ==
    /\ pc[t] = "l91"
    /\ loc' = [loc EXCEPT ![t].log_message =
                 fmt_log_message(captured.preset, loc[t].timestamp,
                                 fmt_level(loc[t].record[1], colorize),
                                 fmt_thread_colored(current_name(t), colorize),
                                 loc[t].project, fmt_line(loc[t].record[1]),
                                 loc[t].record[1].args, colorize)]
    /\ pc' = [pc EXCEPT ![t] = "l123"]
    /\ UNCHANGED <<pathVars, envVars, loggerVars, last>>

\* Line 123 hands the line to the sink and the call returns.
closure_l123(t) ==
    /\ pc[t] = "l123"
    /\ last' = Some(Call(current_name(t), loc[t].record[1], loc[t].now, TRUE, NoneOpt,
                         <<loc[t].log_message>>))
    /\ pc' = [pc EXCEPT ![t] = "idle"]
    /\ loc' = [loc EXCEPT ![t] = NoLocals]
    /\ UNCHANGED <<pathVars, envVars, loggerVars>>

(* ---------------------------------------------------------------------- *)
(* Specifications                                                          *)
(* ---------------------------------------------------------------------- *)
NoPathCall == arg_path = <<>> /\ arg_depth = 0 /\ ret_path = NoneOpt

NoLogger ==
    /\ installed = FALSE
    /\ builder = NoneOpt
    /\ captured = NotCaptured
    /\ directives = <<>>
    /\ stderr = <<>>
    /\ panicked = FALSE
    /\ last = NoneOpt
    /\ pc = [t \in Threads |-> "idle"]
    /\ loc = [t \in Threads |-> NoLocals]

\* A call of get_project_relative_path.
relativize ==
    /\ ret_path = NoneOpt
    /\ ret_path' = Some(get_project_relative_path(arg_path, arg_depth))
    /\ UNCHANGED <<arg_path, arg_depth, envVars, loggerVars, last, threadVars>>

\* Path relativization over every path of the bound.
InitPath ==
    /\ arg_path \in Paths
    /\ arg_depth \in 0..MaxDepth
    /\ ret_path = NoneOpt
    /\ host = <<"proj">> /\ rust_log = NoneOpt /\ colorize = FALSE
    /\ NoLogger

NextPath == relativize

SpecPath == InitPath /\ [][NextPath]_vars

\* The formatter: every captured configuration, every record, one thread
\* logging at a time, a threshold that lets every record through.  A log
\* call leaves the logger as it is, so one call per behaviour, before or
\* after init_logger, reaches every outcome a call can have.
FormatBuilders ==
    { LoggerBuilder(<<"t","r","a","c","e">>, FALSE, d, tf, p) :
        d \in 0..MaxPathDepth, tf \in TimeFormats, p \in LoggerPreset }

FormatCalls ==
    { <<"T_main", Record(l, <<"proj", "::", "mod">>, Some(ScenarioFile), Some(42), Hello), 0>> :
        l \in Levels }
    \cup
    { <<"T_main", Record(Info, tg, f, n, m), 0>> :
        tg \in Targets, f \in Files, n \in Lines, m \in Messages }
    \cup
    { <<t, Record(Info, <<"proj", "::", "mod">>, f, n, m), now>> :
        t \in Threads, f \in Files \ {Some(<<"src", "/", "main.rs">>)}, n \in Lines,
        m \in Messages, now \in 0..MaxClock }

InitFormat ==
    /\ NoPathCall
    /\ host \in Hosts /\ rust_log = NoneOpt /\ colorize \in BOOLEAN
    /\ NoLogger

NextFormat ==
    \/ \E lb \in FormatBuilders : init_logger(lb)
    \/ /\ last = NoneOpt
       /\ \E c \in FormatCalls : log(c[1], c[2], c[3])

SpecFormat == InitFormat /\ [][NextFormat]_vars

\* Initialization and filtering: every level string, both filter wirings,
\* every value of RUST_LOG, then one record handed to the facility.
InitBuilders ==
    { LoggerBuilder(l, o, 0, DefaultTimeFormat, FULL) :
        l \in LevelStrings, o \in BOOLEAN }

InitRecords ==
    { Record(l, tg, NoneOpt, NoneOpt, Hello) : l \in Levels, tg \in Targets }

InitInit ==
    /\ NoPathCall
    /\ host \in Hosts /\ rust_log \in EnvValues /\ colorize = FALSE
    /\ NoLogger

NextInit ==
    \/ \E lb \in InitBuilders : init_logger(lb)
    \/ /\ installed
       /\ last = NoneOpt
       /\ \E r \in InitRecords : log("T_main", r, 0)

SpecInit == InitInit /\ [][NextInit]_vars

\* Threads that log at the same time, and init_logger called again.
ConcBuilders ==
    { LoggerBuilder(<<"i","n","f","o">>, FALSE, d, DefaultTimeFormat, p) :
        d \in 0..MaxPathDepth, p \in {FULL, SIMPLE} }

ConcRecords ==
    { Record(Info, <<"proj", "::", "mod">>, Some(ScenarioFile), Some(42), Hello),
      Record(Error, <<"rimplog">>, NoneOpt, NoneOpt, Hello) }

ConcThreads == {"T_main", "T_worker"}

InitConc ==
    /\ NoPathCall
    /\ host = <<"proj">> /\ rust_log = NoneOpt /\ colorize = FALSE
    /\ NoLogger

NextConc ==
    \/ \E lb \in ConcBuilders : init_logger(lb)
    \/ \E lb \in ConcBuilders : init_logger_again(lb)
    \/ \E t \in ConcThreads, r \in ConcRecords : log_begin(t, r)
    \/ \E t \in ConcThreads : closure_l62(t)
    \/ \E t \in ConcThreads : closure_l80(t)
    \/ \E t \in ConcThreads : closure_l89(t)
    \/ \E t \in ConcThreads : closure_l91(t)
    \/ \E t \in ConcThreads : closure_l123(t)

SpecConc == InitConc /\ [][NextConc]_vars

(* ---------------------------------------------------------------------- *)
(* Claims about path relativization (SpecPath)                             *)
(* ---------------------------------------------------------------------- *)
IsSrc(comps, i) == comps[i] = <<"src">>

\* The last min(d, Len(suffix)) components of suffix, joined with "/".
TrailingRun(suffix, d) ==
    Join(SubSeq(suffix, Len(suffix) - Min(d, Len(suffix)) + 1, Len(suffix)), Slash)

\* What the claim C1 expects of the result for the "src" component at index i.
RelativeFrom(comps, i, depth, result) ==
    LET suffix == SubSeq(comps, i, Len(comps))
    IN  /\ depth = 0 => result = Join(suffix, Slash)
        /\ depth >= 1 => result = TrailingRun(suffix, depth)

\* C1 as stated: for every index i at which a "src" component occurs, depth 0
\* returns the components from i to the end joined with "/", and depth d >= 1
\* returns the trailing run of exactly min(d, suffix length) components of
\* that suffix.
C1_EverySrcIndex ==
    ret_path # NoneOpt =>
        \A i \in 1..Len(components(arg_path)) :
            IsSrc(components(arg_path), i)
               => RelativeFrom(components(arg_path), i, arg_depth, ret_path[1])

\* C1 amended: the statement holds for the first index i at which a "src"
\* component occurs (the components before the first "src" are discarded);
\* with depth 0 the result is the components from i to the end joined with
\* "/", with depth d >= 1 the trailing run of exactly min(d, suffix length)
\* components of that suffix.
C1_FirstSrcIndex ==
    ret_path # NoneOpt =>
        \A i \in 1..Len(components(arg_path)) :
            (/\ IsSrc(components(arg_path), i)
             /\ \A j \in 1..(i - 1) : ~IsSrc(components(arg_path), j))
               => RelativeFrom(components(arg_path), i, arg_depth, ret_path[1])

\* A path with two "src" components and others around them has been
\* relativized with a depth that cuts the suffix.
C1_Witness ==
    /\ ret_path # NoneOpt
    /\ arg_depth >= 1
    /\ \E i, j \in 1..Len(components(arg_path)) :
          /\ 1 < i /\ i < j
          /\ IsSrc(components(arg_path), i)
          /\ IsSrc(components(arg_path), j)
          /\ arg_depth < Len(components(arg_path)) - i + 1

\* C2 as stated: for a path with no "src" component, depth 0 returns the
\* input path unchanged, character for character, and depth d >= 1 returns
\* exactly the last min(d, total) components joined with "/".
C2_NoSrcUnchanged ==
    (/\ ret_path # NoneOpt
     /\ \A i \in 1..Len(components(arg_path)) : ~IsSrc(components(arg_path), i))
       => /\ arg_depth = 0 => ret_path[1] = arg_path
          /\ arg_depth >= 1 => ret_path[1] = TrailingRun(components(arg_path), arg_depth)

(* ---------------------------------------------------------------------- *)
(* Claims about the formatter (SpecFormat)                                 *)
(* ---------------------------------------------------------------------- *)
\* A text without the escape sequences of its styles.
Plain(text) == SelectSeq(text, LAMBDA g : g \notin Escapes)

EndsWith(s, p) ==
    /\ Len(p) <= Len(s)
    /\ SubSeq(s, Len(s) - Len(p) + 1, Len(s)) = p

\* The last call reached the formatter.
Emitted == last # NoneOpt /\ last[1].emitted

\* C3 as stated: the target qualifier is the relativized path alone when the
\* record's target belongs to the host project, and "[<raw target>]
\* <relativized path>" for every target that does not (one whose name merely
\* has the project name as a string prefix included).
C3_HostTargetsUnbracketed ==
    Emitted =>
        LET r   == last[1].record
            l   == last[1].locals[1]
            prp == l.project_relative_path
        IN  /\ belongs_to(r.target, host) => Plain(l.project) = prp
            /\ ~belongs_to(r.target, host)
                  => Plain(l.project) = <<"[">> \o r.target \o <<"]", " ">> \o prp

\* The line the claim C4 gives for a preset, from the plain text of the fields.
LineOfPreset(preset, timestamp, level, thread, qualifier, line, message) ==
    CASE preset = FULL ->
           timestamp \o <<" ">> \o level \o <<" ", "[">> \o thread \o <<"]", " ", "[">>
             \o qualifier \o <<":">> \o line \o <<"]", " ">> \o message
      [] preset = THREAD ->
           timestamp \o <<" ">> \o level \o <<" ", "[">> \o thread \o <<"]", " ">>
             \o message
      [] preset = SIMPLE ->
           <<"[", " ">> \o timestamp \o <<" ">> \o level \o <<"]", " ">> \o message

C9_MinimalNeverContains ==
    (Emitted /\ captured.preset = SIMPLE) =>
        LET l == last[1].locals[1]
        IN  /\ ~Contains(last[1].writes[1], <<"[">> \o l.thread_colored \o <<"]">>)
            /\ ~Contains(last[1].writes[1],
                         <<"[">> \o l.project \o <<":">>
                           \o styled(Yellow, <<ToString(l.line)>>, colorize) \o <<"]">>)

\* C9 amended: the line rendered under the Minimal (SIMPLE) preset is
\* assembled from the timestamp, the level label and the message alone: it
\* is the same line for every thread, target, source file and line number
\* the record could carry, so it holds a thread label or target qualifier
\* substring only where that text itself spells one.
C9_MinimalIndependentOfThreadAndTarget ==
    (Emitted /\ captured.preset = SIMPLE) =>
        \A t \in Threads, tg \in Targets, f \in Files, n \in Lines :
            format_closure(captured,
                           Record(last[1].record.level, tg, f, n, last[1].record.args),
                           current_name(t), last[1].now, colorize).log_message
              = last[1].writes[1]

\* A record with a source file, logged on the main thread, has been rendered
\* under the Minimal preset.
C9_Witness ==
    /\ Emitted
    /\ captured.preset = SIMPLE
    /\ last[1].thread = Some(Main)
    /\ last[1].record.file = Some(ScenarioFile)
    /\ last[1].record.args = Hello

(* ---------------------------------------------------------------------- *)
(* Claims about initialization and filtering (SpecInit)                    *)
(* ---------------------------------------------------------------------- *)
\* The threshold init_logger installs: the project's when only_project_logs
\* is set, the global default otherwise.
InstalledThreshold ==
    IF builder[1].only_project_logs
    THEN threshold(directives, Some(CARGO_PKG_NAME))
    ELSE threshold(directives, NoneOpt)

\* C5 as stated: after init_logger with only_project_logs = true no record
\* whose target is outside the host project is emitted, at any severity and
\* whatever RUST_LOG contains, and a record of the host project is emitted
\* iff its severity is at or above the parsed level.
C5_OnlyHostProjectRecords ==
    (installed /\ builder[1].only_project_logs /\ last # NoneOpt) =>
        LET r == last[1].record
        IN  IF belongs_to(r.target, host)
            THEN last[1].emitted <=>
                    r.level <= unwrap_or(parse_level_filter(builder[1].level), Info)
            ELSE ~last[1].emitted

\* C6 as stated: when RUST_LOG is present (here: holds a level), the
\* threshold init_logger installs is the one derived from its value;
\* LoggerBuilder.level determines the threshold only when RUST_LOG is absent.
C6_EnvironmentSupersedesLevel ==
    installed =>
        IF rust_log # NoneOpt /\ parse_level_filter(rust_log[1]) # NoneOpt
        THEN InstalledThreshold = parse_level_filter(rust_log[1])
        ELSE rust_log = NoneOpt =>
                InstalledThreshold =
                   Some(unwrap_or(parse_level_filter(builder[1].level), Info))

\* What C7 says of init_logger, the warning holding the quoted text `shown`.
RecoversFromLevel(shown) ==
    IF parse_level_filter(builder[1].level) = NoneOpt
    THEN /\ InstalledThreshold = Some(Info)
         /\ Len(stderr) = 1
         /\ Contains(stderr[1], shown)
         /\ EndsWith(stderr[1], <<"\n">>)
    ELSE /\ InstalledThreshold = parse_level_filter(builder[1].level)
         /\ stderr = <<>>

ConfigAsGiven ==
    installed =>
        /\ captured = capture(builder[1])
        /\ \A t \in Threads :
              pc[t] = "l123" =>
                 loc[t].log_message =
                    format_closure(capture(builder[1]), loc[t].record[1],
                                   current_name(t), loc[t].now, colorize).log_message

\* A step taken once the logger is registered leaves the captured values and
\* the filter as they are, and a step of one thread's format call leaves the
\* other threads' calls as they are.
StepKeepsConfig ==
    installed =>
        /\ captured' = captured
        /\ directives' = directives
        /\ installed'
        /\ \A t \in Threads :
              pc'[t] # pc[t] =>
                 \A u \in Threads \ {t} : pc'[u] = pc[u] /\ loc'[u] = loc[u]

\* C10: after init_logger has installed the formatter the captured
\* configuration (path depth, time pattern, preset, project name) is never
\* modified: in every interleaving of format calls of several threads each
\* call reads the values given to init_logger, and a format call changes no
\* state shared with other format calls.
C10_ConfigurationReadOnly == []ConfigAsGiven /\ [][StepKeepsConfig]_vars

\* Two threads are inside the format closure at different lines, a line has
\* reached the sink and a later init_logger has panicked.
C10_Witness ==
    /\ pc["T_main"] = "l91"
    /\ pc["T_worker"] = "l62"
    /\ last # NoneOpt
    /\ panicked
    /\ captured.path_depth = MaxPathDepth

====
